---- MODULE Spec2Model ----
(***************************************************************************)
(* A model of webrunner.py: the reporting helpers (log_and_report,         *)
(* log_step, WebRunner.screenshot), the WebRunner helpers that call into   *)
(* the driver (waits, locators, click, open_browser,                       *)
(* close_all_windows_except_current), and the failed-xpath INI store       *)
(* (store_failed_xpaths).                                                  *)
(*                                                                         *)
(* The Python call chain is modelled as an explicit call stack.  Every     *)
(* action is one statement of the function on top of the stack; a call     *)
(* pushes a frame, a return pops it and resumes the caller after the call  *)
(* site, and a raised exception is held in exc until a frame catches it or  *)
(* the stack is empty.  The driver, the wrapped function of log_step and    *)
(* the page are the environment: each of their calls may return or raise.  *)
(***************************************************************************)
EXTENDS Integers, Sequences, FiniteSets, TLC

VARIABLES
    stack,      \* the call stack, innermost frame last
    exc,        \* the exception in flight, or "none"
    ret,        \* the value returned by the frame popped last
    log,        \* LoggerReports.logger.info entries, in order
    steps,      \* report.step entries, in order
    saved,      \* number of driver.save_screenshot files written
    attached,   \* number of allure.attach(png) attachments
    call,       \* the top-level call: its entry point and arguments
    outcome,    \* "idle", "running", "returned" or "raised"
    result,     \* the value returned to, or the exception reaching, the caller
    hist,       \* what the environment did during the call (for the claims)
    file,       \* test_data/failed_xpaths.ini: section -> (option -> text of the value)
    torn,       \* a writer wrote over what another writer wrote after its truncation
    config,     \* the module-level global config of each test process
    spc,        \* where each process is in store_failed_xpaths
    sarg,       \* the arguments, caller and locals of each process's call
    sres,       \* how each process's last call ended
    budget,     \* the calls each process still makes
    shist,      \* the order of reads and writes, and the store the calls describe
    webdriver,  \* the browser behind the driver handle: implicit wait, windows, focus
    self        \* the attributes of the WebRunner object (self.driver)

run == <<stack, exc, ret, log, steps, saved, attached, call, outcome, result, hist>>

ini == <<file, torn, config, spc, sarg, sres, budget, shist>>

obj == <<webdriver, self>>

vars == <<run, ini, obj>>

(***************************************************************************)
(* Bounds.                                                                 *)
(***************************************************************************)
\* Depth of the interpreter's call stack at which a further call raises
\* RecursionError (sys.getrecursionlimit(), scaled down).
RecursionLimit == 7

\* WebRunner.timeout (Browser().timeout, line 103) and the wait_time of
\* is_visible_on_screen, in polls of WebDriverWait (scaled down).
Timeout == 2

WaitTime == 1

\* Calls of store_failed_xpaths one test process makes in a row.
MaxCalls == 2

\* The attempt count of the retry around the browser launch.
Attempts == 2

\* Browser windows that can be open at a time.
MaxWindows == 3

(***************************************************************************)
(* Values.                                                                 *)
(***************************************************************************)
\* Python values are one-element tuples, so that they compare with messages.
Value(x) == <<x>>

None == Value("None")

\* An f-string: the literal parts and the interpolated values, in order.
Msg(prefix, value) == <<prefix, value>>

\* Exceptions that "except Exception" does not catch: pytest.fail() raises
\* Failed, which derives from BaseException.
BaseExceptions == {"Failed"}

IsException(e) == e \notin BaseExceptions

FunctionNames == {"f"}

\* Messages a caller passes to log_and_report.  The last two are the messages
\* WebRunner.screenshot itself passes at lines 386 and 388.
Messages ==
    {Msg("Clicked element for ", "f"),
     Msg("Screenshot captured for ", "f"),
     Msg("Failed to capture screenshot for ", "f")}

StepNames == {"My step"}

\* The implicit wait of the driver a test hands in: Selenium's default, or
\* what the test has set with driver.implicitly_wait.
ImplicitWaits == {0, Timeout}

NewDriver == [implicit_wait |-> 0, handles |-> {1}, focus |-> 1]

\* A WebRunner object: no attribute is set by the class body but timeout.
NewSelf == [driver |-> None]

Frame(fn, pc) ==
    [fn |-> fn, pc |-> pc, i |-> 0, msg |-> <<>>, fname |-> "", shot |-> FALSE,
     drv |-> FALSE, rep |-> FALSE, caught |-> "none", val |-> None, n |-> 0,
     current |-> 0, todo |-> <<>>]

Top == stack[Len(stack)]

Running(fn, pc) ==
    /\ outcome = "running"
    /\ exc = "none"
    /\ stack # <<>>
    /\ Top.fn = fn
    /\ Top.pc = pc

SetTop(f) == [stack EXCEPT ![Len(stack)] = f]

Goto(pc) == stack' = SetTop([Top EXCEPT !.pc = pc])

\* A call: a new frame, or RecursionError at the call site when the stack is full.
Push(f) ==
    IF Len(stack) >= RecursionLimit
    THEN /\ exc' = "RecursionError"
         /\ stack' = stack
    ELSE /\ exc' = "none"
         /\ stack' = Append(stack, f)


(***************************************************************************)
(* The WebRunner helpers that call into the driver.  A helper is its try    *)
(* body and its except handler, each a sequence of statements:             *)
(*   driver   a call of the driver (or of an element, an alert): it        *)
(*            returns or raises                                            *)
(*   until    WebDriverWait(driver, timeout).until(predicate)              *)
(*   scroll   self.scroll_to_element(driver, locator, ...)                 *)
(*   log      log_and_report(message, function_name)                       *)
(*   logfail  log_and_report(message, function_name, screenshot=True,      *)
(*            driver=driver, trace=trace)                                  *)
(*   fail     pytest.fail()                                                *)
(*   return   return a value ("val": the value the wait returned)          *)
(* In a message, "$function_name" stands for the function_name argument.   *)
(***************************************************************************)
Stmt(op, a, m) == [op |-> op, a |-> a, m |-> m]

navigate_to_url ==
    [try |-> TRUE,
     body |-> <<Stmt("driver", "get", <<>>),
                Stmt("log", "", <<"Navigated to ", "base_url", " successfully">>)>>,
     handler |-> <<Stmt("logfail", "", <<"Failed to navigate to ", "base_url">>),
                   Stmt("fail", "", <<>>)>>]

explicit_wait_presence_of_element ==
    [try |-> TRUE,
     body |-> <<Stmt("until", "presence_of_element_located", <<>>),
                Stmt("scroll", "", <<>>),
                Stmt("log", "", <<"Waited for element in ", "$function_name">>)>>,
     handler |-> <<Stmt("logfail", "", <<"Failed waiting for element in ", "$function_name">>),
                   Stmt("fail", "", <<>>)>>]

explicit_is_element_displayed ==
    [try |-> TRUE,
     body |-> <<Stmt("until", "presence_of_element_located", <<>>),
                Stmt("scroll", "", <<>>),
                Stmt("log", "", <<"Waited for element in ", "$function_name">>),
                Stmt("return", "val", <<>>)>>,
     handler |-> <<Stmt("logfail", "", <<"Failed waiting for element in ", "$function_name">>),
                   Stmt("return", "None", <<>>)>>]

explicit_wait_presence_of_element_is_invisible ==
    [try |-> TRUE,
     body |-> <<Stmt("until", "invisibility_of_element_located", <<>>),
                Stmt("log", "", <<"Waited for element to be invisible in ", "$function_name">>)>>,
     handler |-> <<Stmt("logfail", "", <<"Failed waiting for element to be invisible in ", "$function_name">>),
                   Stmt("fail", "", <<>>)>>]

is_enabled ==
    [try |-> FALSE,
     body |-> <<Stmt("until", "visibility_of_element_located", <<>>),
                Stmt("return", "val", <<>>)>>,
     handler |-> <<>>]

is_visible_on_screen ==
    [try |-> TRUE,
     body |-> <<Stmt("driver", "implicitly_wait", <<"1">>),
                Stmt("until", "visibility_of_element_located", <<>>),
                Stmt("driver", "execute_script", <<>>),
                Stmt("driver", "implicitly_wait", <<"self.timeout">>),
                Stmt("log", "", <<"Element is visible on screen">>),
                Stmt("return", "True", <<>>)>>,
     handler |-> <<Stmt("driver", "implicitly_wait", <<"self.timeout">>),
                   Stmt("return", "False", <<>>)>>]

is_visible ==
    [try |-> TRUE,
     body |-> <<Stmt("until", "visibility_of_element_located", <<>>),
                Stmt("return", "True", <<>>)>>,
     handler |-> <<Stmt("return", "False", <<>>)>>]

confirm_alert ==
    [try |-> TRUE,
     body |-> <<Stmt("until", "alert_is_present", <<>>),
                Stmt("driver", "switch_to.alert", <<>>),
                Stmt("driver", "alert.accept", <<>>),
                Stmt("log", "", <<"Confirmed alert for ", "$function_name">>)>>,
     handler |-> <<Stmt("logfail", "", <<"Failed to confirm alert for ", "$function_name">>),
                   Stmt("fail", "", <<>>)>>]

find_frame_by_id ==
    [try |-> TRUE,
     body |-> <<Stmt("until", "frame_to_be_available_and_switch_to_it", <<>>),
                Stmt("log", "", <<"Switched to frame with ID: ", "frame_id">>)>>,
     handler |-> <<Stmt("logfail", "", <<"Failed to switch to frame with ID: ", "frame_id">>),
                   Stmt("fail", "", <<>>)>>]

find_frame_by_name ==
    [try |-> TRUE,
     body |-> <<Stmt("until", "frame_to_be_available_and_switch_to_it", <<>>),
                Stmt("log", "", <<"Switched to frame with Name: ", "frame_name">>)>>,
     handler |-> <<Stmt("logfail", "", <<"Failed to switch to frame with Name: ", "frame_name">>),
                   Stmt("fail", "", <<>>)>>]

\* lines 152-175; the handler ends without a return
web_locator ==
    [try |-> TRUE,
     body |-> <<Stmt("until", "presence_of_element_located", <<>>),
                Stmt("driver", "find_element", <<>>),
                Stmt("scroll", "", <<>>),
                Stmt("log", "", <<"Located element for ", "$function_name">>),
                Stmt("return", "val", <<>>)>>,
     handler |-> <<Stmt("logfail", "", <<"Failed to locate element for ", "$function_name">>)>>]

\* lines 177-197
web_locators_list ==
    [try |-> TRUE,
     body |-> <<Stmt("until", "presence_of_all_elements_located", <<>>),
                Stmt("driver", "find_elements", <<>>),
                Stmt("log", "", <<"Located elements list for ", "$function_name">>),
                Stmt("return", "val", <<>>)>>,
     handler |-> <<Stmt("logfail", "", <<"Failed to locate elements list for ", "$function_name">>),
                   Stmt("return", "[]", <<>>)>>]

\* lines 305-321: the local is_displayed starts as False, is bound to the
\* element found, and is what both return statements return; the value of
\* is_displayed.is_displayed() is not used
is_element_displayed ==
    [try |-> TRUE,
     body |-> <<Stmt("driver", "find_element", <<>>),
                Stmt("scroll", "", <<>>),
                Stmt("driver", "is_displayed", <<>>),
                Stmt("log", "", <<"Waited for element to display on the web page">>),
                Stmt("return", "val", <<>>)>>,
     handler |-> <<Stmt("logfail", "", <<"Failed waiting to display on the web page">>),
                   Stmt("return", "val", <<>>)>>]

\* if locator: driver.execute_script(...); the helpers pass it a located element
scroll_to_element ==
    [try |-> TRUE,
     body |-> <<Stmt("driver", "execute_script", <<>>)>>,
     handler |-> <<Stmt("logfail", "", <<"Failed to scroll to element for ", "$function_name">>),
                   Stmt("fail", "", <<>>)>>]

Helpers ==
    {"navigate_to_url", "explicit_wait_presence_of_element", "explicit_is_element_displayed",
     "explicit_wait_presence_of_element_is_invisible", "is_enabled", "is_visible_on_screen",
     "is_visible", "confirm_alert", "find_frame_by_id", "find_frame_by_name",
     "web_locator", "web_locators_list", "is_element_displayed"}

IsHelper(fn) == fn \in Helpers \cup {"scroll_to_element"}

Program(fn) ==
    CASE fn = "navigate_to_url" -> navigate_to_url
      [] fn = "explicit_wait_presence_of_element" -> explicit_wait_presence_of_element
      [] fn = "explicit_is_element_displayed" -> explicit_is_element_displayed
      [] fn = "explicit_wait_presence_of_element_is_invisible" -> explicit_wait_presence_of_element_is_invisible
      [] fn = "is_enabled" -> is_enabled
      [] fn = "is_visible_on_screen" -> is_visible_on_screen
      [] fn = "is_visible" -> is_visible
      [] fn = "confirm_alert" -> confirm_alert
      [] fn = "find_frame_by_id" -> find_frame_by_id
      [] fn = "find_frame_by_name" -> find_frame_by_name
      [] fn = "web_locator" -> web_locator
      [] fn = "web_locators_list" -> web_locators_list
      [] fn = "is_element_displayed" -> is_element_displayed
      [] fn = "scroll_to_element" -> scroll_to_element

\* The function_name a helper passes to log_and_report: its function_name
\* parameter where it has one, else its own __name__ (is_visible_on_screen,
\* navigate_to_url, find_frame_by_id, find_frame_by_name).
TakesFunctionName(fn) ==
    fn \in {"explicit_wait_presence_of_element", "explicit_is_element_displayed",
            "explicit_wait_presence_of_element_is_invisible", "confirm_alert",
            "web_locator", "web_locators_list", "scroll_to_element"}

\* The wait of a helper: self.timeout, or wait_time in is_visible_on_screen.
WaitOf(fn) == IF fn = "is_visible_on_screen" THEN WaitTime ELSE Timeout

Code(f) == Program(f.fn)[f.pc]

AtEnd(f) == f.i > Len(Code(f))

NoStmt == Stmt("end", "", <<>>)

\* The statement a helper frame is at.
Op(f) == IF AtEnd(f) THEN NoStmt ELSE Code(f)[f.i]

Subst(m, f) == [k \in DOMAIN m |-> IF m[k] = "$function_name" THEN f.fname ELSE m[k]]

(***************************************************************************)
(* Where a frame resumes when the call it made returns.                    *)
(***************************************************************************)
After(f, v) ==
    CASE f.fn = "log_and_report" /\ f.pc = "L51" -> [f EXCEPT !.pc = "L52"]
      [] f.fn = "screenshot" /\ f.pc = "S386" -> [f EXCEPT !.pc = "Sret"]
      [] f.fn = "screenshot" /\ f.pc = "S388" -> [f EXCEPT !.pc = "Sret"]
      [] f.fn = "wrapper" /\ f.pc = "W70" -> [f EXCEPT !.pc = "W72"]
      [] f.fn = "wrapper" /\ f.pc = "W73" -> [f EXCEPT !.pc = "W74"]
      [] f.fn = "wrapper" /\ f.pc = "W77" -> [f EXCEPT !.pc = "W78"]
      [] f.fn = "open_browser" /\ f.pc = "O121" -> [f EXCEPT !.pc = "O125"]
      [] f.fn = "open_browser" /\ f.pc = "O125" -> [f EXCEPT !.pc = "O126", !.val = v]
      [] f.fn = "open_browser" /\ f.pc = "O126" -> [f EXCEPT !.pc = "O130"]
      [] f.fn = "open_browser" /\ f.pc = "O128" -> [f EXCEPT !.pc = "O129"]
      [] f.fn = "close_all_windows_except_current" /\ f.pc \in {"C505", "C507"} ->
            [f EXCEPT !.pc = "Cend"]
      [] f.fn = "click" /\ f.pc = "K225" -> [f EXCEPT !.pc = "K226"]
      [] f.fn = "click" /\ f.pc = "K226" -> [f EXCEPT !.pc = "K226click", !.val = v]
      [] f.fn = "click" /\ f.pc = "K229" -> [f EXCEPT !.pc = "Kend"]
      [] f.fn = "click" /\ f.pc = "K231" -> [f EXCEPT !.pc = "K232"]
      [] IsHelper(f.fn) ->
            [f EXCEPT !.i = f.i + 1, !.val = IF Op(f).op = "until" THEN v ELSE f.val]
      [] OTHER -> f

\* A return: the frame is popped; the caller resumes, or the top-level call ends.
Return(v) ==
    /\ ret' = v
    /\ IF Len(stack) = 1
       THEN /\ stack' = <<>>
            /\ outcome' = "returned"
            /\ result' = v
       ELSE /\ stack' = Append(SubSeq(stack, 1, Len(stack) - 2), After(stack[Len(stack) - 1], v))
            /\ UNCHANGED <<outcome, result>>

(***************************************************************************)
(* try/except: the statements of a frame that lie in a try block, and the   *)
(* handler they lead to.                                                   *)
(***************************************************************************)
InTry(f) ==
    CASE f.fn = "screenshot" -> f.pc \in {"S383", "S384", "S386"}
      [] f.fn = "wrapper" -> f.pc \in {"W72", "W73"}
      [] f.fn = "open_browser" -> f.pc \in {"O125", "O126"}
      [] f.fn = "close_all_windows_except_current" ->
            f.pc \in {"C498", "C499", "C500", "C501", "C502", "C504", "C505"}
      [] f.fn = "click" -> f.pc \in {"K225", "K226", "K226click", "K228", "K229"}
      [] IsHelper(f.fn) -> Program(f.fn).try /\ f.pc = "body"
      [] OTHER -> FALSE

Handler(f, e) ==
    CASE f.fn = "screenshot" -> [f EXCEPT !.pc = "S388", !.caught = e]
      [] f.fn = "wrapper" -> [f EXCEPT !.pc = "W77", !.caught = e]
      [] f.fn = "open_browser" -> [f EXCEPT !.pc = "O128", !.caught = e]
      [] f.fn = "close_all_windows_except_current" -> [f EXCEPT !.pc = "C507", !.caught = e]
      [] f.fn = "click" ->
            [f EXCEPT !.pc = IF f.pc \in {"K225", "K226", "K226click"} THEN "K228" ELSE "K231",
                      !.caught = e]
      [] IsHelper(f.fn) -> [f EXCEPT !.pc = "handler", !.i = 1, !.caught = e]
      [] OTHER -> f

Catches(f, e) == InTry(f) /\ IsException(e)

\* An exception in flight: the innermost frame catches it, or is unwound.
Propagate ==
    /\ outcome = "running"
    /\ exc # "none"
    /\ IF Catches(Top, exc)
       THEN /\ stack' = SetTop(Handler(Top, exc))
            /\ exc' = "none"
            /\ UNCHANGED <<outcome, result>>
       ELSE /\ stack' = SubSeq(stack, 1, Len(stack) - 1)
            /\ exc' = IF Len(stack) = 1 THEN "none" ELSE exc
            /\ outcome' = IF Len(stack) = 1 THEN "raised" ELSE outcome
            /\ result' = IF Len(stack) = 1 THEN Value(exc) ELSE result
    /\ UNCHANGED <<ret, log, steps, saved, attached, call, hist>>
    /\ UNCHANGED ini
    /\ UNCHANGED obj

(***************************************************************************)
(* log_and_report(message, function_name, screenshot, driver, trace,       *)
(* report)                                                                 *)
(***************************************************************************)
LogFrame(message, function_name, screenshot, driver, report) ==
    [Frame("log_and_report", "L45") EXCEPT
        !.msg = message, !.fname = function_name, !.shot = screenshot,
        !.drv = driver, !.rep = report]

\* line 45: LoggerReports.logger.info(message)
LogInfo ==
    /\ Running("log_and_report", "L45")
    /\ log' = Append(log, Top.msg)
    /\ Goto("L46")
    /\ UNCHANGED <<exc, ret, steps, saved, attached, call, outcome, result, hist>>
    /\ UNCHANGED ini
    /\ UNCHANGED obj

\* A mutant of ReportStep: the step is recorded without the test of report.
ReportStepUnconditional ==
    /\ Running("log_and_report", "L46")
    /\ steps' = Append(steps, Top.msg)
    /\ Goto("L49")
    /\ UNCHANGED <<exc, ret, log, saved, attached, call, outcome, result, hist>>
    /\ UNCHANGED ini
    /\ UNCHANGED obj

\* lines 46-48: if report: report.step(message); allure.step(message)
ReportStep ==
    /\ Running("log_and_report", "L46")
    /\ steps' = IF Top.rep THEN Append(steps, Top.msg) ELSE steps
    /\ Goto("L49")
    /\ UNCHANGED <<exc, ret, log, saved, attached, call, outcome, result, hist>>
    /\ UNCHANGED ini
    /\ UNCHANGED obj

\* line 49: if screenshot and driver
CheckScreenshot ==
    /\ Running("log_and_report", "L49")
    /\ Goto(IF Top.shot /\ Top.drv THEN "L51" ELSE "L53")
    /\ UNCHANGED <<exc, ret, log, steps, saved, attached, call, outcome, result, hist>>
    /\ UNCHANGED ini
    /\ UNCHANGED obj

ScreenshotFrame(function_name, driver) ==
    [Frame("screenshot", "S383") EXCEPT !.fname = function_name, !.drv = driver]

\* line 51: WebRunner().screenshot(driver, function_name, trace)
CallScreenshot ==
    /\ Running("log_and_report", "L51")
    /\ Push(ScreenshotFrame(Top.fname, Top.drv))
    /\ UNCHANGED <<ret, log, steps, saved, attached, call, outcome, result, hist>>
    /\ UNCHANGED ini
    /\ UNCHANGED obj

\* line 52: allure.attach(driver.get_screenshot_as_png(), ...), outside any try
AttachScreenshot ==
    /\ Running("log_and_report", "L52")
    /\ \/ /\ attached' = attached + 1
          /\ Goto("L53")
          /\ UNCHANGED <<exc, hist>>
       \/ /\ exc' = "E_png"
          /\ hist' = [hist EXCEPT !.driverRaised = TRUE]
          /\ UNCHANGED <<stack, attached>>
    /\ UNCHANGED <<ret, log, steps, saved, call, outcome, result>>
    /\ UNCHANGED ini
    /\ UNCHANGED obj

\* line 53: return message
ReturnMessage ==
    /\ Running("log_and_report", "L53")
    /\ Return(Top.msg)
    /\ UNCHANGED <<exc, log, steps, saved, attached, call, hist>>
    /\ UNCHANGED ini
    /\ UNCHANGED obj

(***************************************************************************)
(* WebRunner.screenshot(driver, function_name, trace)                      *)
(***************************************************************************)
\* line 383: driver.save_screenshot(path), in the try block
SaveScreenshot ==
    /\ Running("screenshot", "S383")
    /\ \/ /\ saved' = saved + 1
          /\ Goto("S384")
          /\ UNCHANGED <<exc, hist>>
       \/ /\ exc' = "E_save"
          /\ hist' = [hist EXCEPT !.driverRaised = TRUE]
          /\ UNCHANGED <<stack, saved>>
    /\ UNCHANGED <<ret, log, steps, attached, call, outcome, result>>
    /\ UNCHANGED ini
    /\ UNCHANGED obj

\* line 384: allure.attach(driver.get_screenshot_as_png(), ...), in the try block
ScreenshotAttach ==
    /\ Running("screenshot", "S384")
    /\ \/ /\ attached' = attached + 1
          /\ Goto("S386")
          /\ UNCHANGED <<exc, hist>>
       \/ /\ exc' = "E_png"
          /\ hist' = [hist EXCEPT !.driverRaised = TRUE]
          /\ UNCHANGED <<stack, attached>>
    /\ UNCHANGED <<ret, log, steps, saved, call, outcome, result>>
    /\ UNCHANGED ini
    /\ UNCHANGED obj

\* line 386: log_and_report("Screenshot captured for ...", function_name, trace=trace)
ScreenshotLogCaptured ==
    /\ Running("screenshot", "S386")
    /\ Push(LogFrame(Msg("Screenshot captured for ", Top.fname), Top.fname, FALSE, FALSE, FALSE))
    /\ UNCHANGED <<ret, log, steps, saved, attached, call, outcome, result, hist>>
    /\ UNCHANGED ini
    /\ UNCHANGED obj

\* line 388, the except block:
\* log_and_report("Failed to capture screenshot for ...", function_name, screenshot=True, driver=driver)
ScreenshotLogFailed ==
    /\ Running("screenshot", "S388")
    /\ Push(LogFrame(Msg("Failed to capture screenshot for ", Top.fname), Top.fname, TRUE, Top.drv, FALSE))
    /\ UNCHANGED <<ret, log, steps, saved, attached, call, outcome, result, hist>>
    /\ UNCHANGED ini
    /\ UNCHANGED obj

\* the end of screenshot: it returns None
ScreenshotReturn ==
    /\ Running("screenshot", "Sret")
    /\ Return(None)
    /\ UNCHANGED <<exc, log, steps, saved, attached, call, hist>>
    /\ UNCHANGED ini
    /\ UNCHANGED obj

(***************************************************************************)
(* log_step(step_name)(func): wrapper(args, kwargs)                         *)
(***************************************************************************)
\* args[1] if len(args) > 1 else None: nargs is len(args)
WrapperFrame(step_name, nargs) ==
    [Frame("wrapper", "W70") EXCEPT !.fname = step_name, !.n = nargs]

\* line 70: log_and_report("START: ...", function_name=step_name)
WrapperStart ==
    /\ Running("wrapper", "W70")
    /\ Push(LogFrame(Msg("START: ", Top.fname), Top.fname, FALSE, FALSE, FALSE))
    /\ UNCHANGED <<ret, log, steps, saved, attached, call, outcome, result, hist>>
    /\ UNCHANGED ini
    /\ UNCHANGED obj

\* line 72: result = func(args, kwargs).  func is the caller's: it returns,
\* raises an Exception, or fails the test with pytest.fail().
WrapperCallFunc ==
    /\ Running("wrapper", "W72")
    /\ \/ /\ stack' = SetTop([Top EXCEPT !.pc = "W73", !.val = Value("func result")])
          /\ hist' = [hist EXCEPT !.func = "returned", !.logAtFunc = log]
          /\ UNCHANGED exc
       \/ /\ exc' = "E_func"
          /\ hist' = [hist EXCEPT !.func = "E_func", !.logAtFunc = log]
          /\ UNCHANGED stack
       \/ /\ exc' = "Failed"
          /\ hist' = [hist EXCEPT !.func = "Failed", !.logAtFunc = log]
          /\ UNCHANGED stack
    /\ UNCHANGED <<ret, log, steps, saved, attached, call, outcome, result>>
    /\ UNCHANGED ini
    /\ UNCHANGED obj

\* line 73: log_and_report("SUCCESS: ...", function_name=step_name), in the try block
WrapperSuccess ==
    /\ Running("wrapper", "W73")
    /\ Push(LogFrame(Msg("SUCCESS: ", Top.fname), Top.fname, FALSE, FALSE, FALSE))
    /\ UNCHANGED <<ret, log, steps, saved, attached, call, outcome, result, hist>>
    /\ UNCHANGED ini
    /\ UNCHANGED obj

\* line 74: return result
WrapperReturn ==
    /\ Running("wrapper", "W74")
    /\ Return(Top.val)
    /\ UNCHANGED <<exc, log, steps, saved, attached, call, hist>>
    /\ UNCHANGED ini
    /\ UNCHANGED obj

\* lines 76-77: driver = args[1] if len(args) > 1 else None
\* log_and_report("FAIL: ... | e", screenshot=True, driver=driver, function_name=step_name)
WrapperFail ==
    /\ Running("wrapper", "W77")
    /\ Push(LogFrame(<<"FAIL: ", Top.fname, " | ", Top.caught>>, Top.fname, TRUE, Top.n > 1, FALSE))
    /\ UNCHANGED <<ret, log, steps, saved, attached, call, outcome, result, hist>>
    /\ UNCHANGED ini
    /\ UNCHANGED obj

\* line 78: raise
WrapperReraise ==
    /\ Running("wrapper", "W78")
    /\ exc' = Top.caught
    /\ UNCHANGED <<stack, ret, log, steps, saved, attached, call, outcome, result, hist>>
    /\ UNCHANGED ini
    /\ UNCHANGED obj

(***************************************************************************)
(* The statements of a helper.                                             *)
(***************************************************************************)
\* The local a helper returns with "return val", before it is bound:
\* is_displayed = False at line 312.
InitialLocal(fn) == IF fn = "is_element_displayed" THEN Value("False") ELSE None

HelperFrame(fn, function_name) ==
    [Frame(fn, "body") EXCEPT !.i = 1, !.fname = function_name, !.drv = TRUE,
                              !.val = InitialLocal(fn)]

AtStmt(op) ==
    /\ outcome = "running"
    /\ exc = "none"
    /\ stack # <<>>
    /\ IsHelper(Top.fn)
    /\ Op(Top).op = op

Step == stack' = SetTop([Top EXCEPT !.i = Top.i + 1])

\* a call of the driver: driver.get, driver.implicitly_wait,
\* driver.execute_script, driver.switch_to.alert, alert.accept
\* What a call of the driver returns to the local of the helper.
Found(a, f) ==
    CASE a = "find_element" -> Value("element")
      [] a = "find_elements" -> Value("elements")
      [] OTHER -> f.val

\* driver.implicitly_wait(1) and driver.implicitly_wait(self.timeout)
ImplicitlyWait(d, arg) ==
    [d EXCEPT !.implicit_wait = IF arg = <<"1">> THEN 1 ELSE Timeout]

HelperDriverCall ==
    /\ AtStmt("driver")
    /\ \/ /\ stack' = SetTop([Top EXCEPT !.i = Top.i + 1, !.val = Found(Op(Top).a, Top)])
          /\ webdriver' = IF Op(Top).a = "implicitly_wait" THEN ImplicitlyWait(webdriver, Op(Top).m) ELSE webdriver
          /\ \E shown \in BOOLEAN :
                hist' = [hist EXCEPT
                            !.found = @ \/ Op(Top).a = "find_element",
                            !.displayed = IF Op(Top).a = "is_displayed" THEN Value(shown) ELSE @]
          /\ UNCHANGED exc
       \/ /\ exc' = "WebDriverException"
          /\ hist' = [hist EXCEPT !.libRaised = TRUE,
                                  !.scrollRaised = @ \/ Top.fn = "scroll_to_element"]
          /\ UNCHANGED <<stack, webdriver>>
    /\ UNCHANGED <<ret, log, steps, saved, attached, call, outcome, result>>
    /\ UNCHANGED ini
    /\ UNCHANGED self

UntilFrame(predicate, timeout) ==
    [Frame("until", "poll") EXCEPT !.fname = predicate, !.i = timeout]

\* WebDriverWait(driver, timeout).until(predicate)
HelperWait ==
    /\ AtStmt("until")
    /\ Push(UntilFrame(Op(Top).a, WaitOf(Top.fn)))
    /\ UNCHANGED <<ret, log, steps, saved, attached, call, outcome, result, hist>>
    /\ UNCHANGED ini
    /\ UNCHANGED obj

\* One turn of the loop of WebDriverWait.until: the predicate holds and its
\* value is returned; or it does not hold (or raises an ignored
\* NoSuchElementException), the wait sleeps one poll and raises
\* TimeoutException once the time is past the end time; or the predicate
\* raises an exception that is not ignored.
UntilPoll ==
    /\ Running("until", "poll")
    /\ \/ /\ Return(Value("element"))
          /\ hist' = [hist EXCEPT !.predTrue = TRUE]
          /\ UNCHANGED exc
       \/ /\ Top.n + 1 <= Top.i
          /\ stack' = SetTop([Top EXCEPT !.n = Top.n + 1])
          /\ UNCHANGED <<exc, ret, outcome, result, hist>>
       \/ /\ Top.n + 1 > Top.i
          /\ exc' = "TimeoutException"
          /\ hist' = [hist EXCEPT !.libRaised = TRUE, !.timedOut = TRUE]
          /\ UNCHANGED <<stack, ret, outcome, result>>
       \/ /\ exc' = "WebDriverException"
          /\ hist' = [hist EXCEPT !.libRaised = TRUE]
          /\ UNCHANGED <<stack, ret, outcome, result>>
    /\ UNCHANGED <<log, steps, saved, attached, call>>
    /\ UNCHANGED ini
    /\ UNCHANGED obj

\* self.scroll_to_element(driver, locator, function_name, trace, report)
HelperScroll ==
    /\ AtStmt("scroll")
    /\ Push(HelperFrame("scroll_to_element", Top.fname))
    /\ UNCHANGED <<ret, log, steps, saved, attached, call, outcome, result, hist>>
    /\ UNCHANGED ini
    /\ UNCHANGED obj

\* log_and_report(message, function_name)
HelperLog ==
    /\ AtStmt("log")
    /\ Push(LogFrame(Subst(Op(Top).m, Top), Top.fname, FALSE, FALSE, FALSE))
    /\ UNCHANGED <<ret, log, steps, saved, attached, call, outcome, result, hist>>
    /\ UNCHANGED ini
    /\ UNCHANGED obj

\* log_and_report(message, function_name, screenshot=True, driver=driver, trace=trace)
HelperLogFail ==
    /\ AtStmt("logfail")
    /\ Push(LogFrame(Subst(Op(Top).m, Top), Top.fname, TRUE, Top.drv, FALSE))
    /\ UNCHANGED <<ret, log, steps, saved, attached, call, outcome, result, hist>>
    /\ UNCHANGED ini
    /\ UNCHANGED obj

\* pytest.fail()
HelperFail ==
    /\ AtStmt("fail")
    /\ exc' = "Failed"
    /\ UNCHANGED <<stack, ret, log, steps, saved, attached, call, outcome, result, hist>>
    /\ UNCHANGED ini
    /\ UNCHANGED obj

\* return <value>
HelperReturn ==
    /\ AtStmt("return")
    /\ Return(IF Op(Top).a = "val" THEN Top.val ELSE Value(Op(Top).a))
    /\ UNCHANGED <<exc, log, steps, saved, attached, call, hist>>
    /\ UNCHANGED ini
    /\ UNCHANGED obj

\* the end of the function: it returns None
HelperEnd ==
    /\ AtStmt("end")
    /\ Return(None)
    /\ UNCHANGED <<exc, log, steps, saved, attached, call, hist>>
    /\ UNCHANGED ini
    /\ UNCHANGED obj

(***************************************************************************)
(* WebRunner.click(driver, locator, function_name, trace, report): an       *)
(* inner try (lines 224-226) whose handler is the direct click (line 228),  *)
(* inside an outer try (lines 223-229) whose handler fails the test.        *)
(***************************************************************************)
ClickFrame(function_name) ==
    [Frame("click", "K225") EXCEPT !.fname = function_name, !.drv = TRUE]

\* line 225: self.scroll_to_element(driver, locator, function_name, trace, report)
ClickScroll ==
    /\ Running("click", "K225")
    /\ Push(HelperFrame("scroll_to_element", Top.fname))
    /\ UNCHANGED <<ret, log, steps, saved, attached, call, outcome, result, hist>>
    /\ UNCHANGED ini
    /\ UNCHANGED obj

\* line 226: WebDriverWait(driver, self.timeout).until(ec.element_to_be_clickable(locator))
ClickWait ==
    /\ Running("click", "K226")
    /\ Push(UntilFrame("element_to_be_clickable", Timeout))
    /\ UNCHANGED <<ret, log, steps, saved, attached, call, outcome, result, hist>>
    /\ UNCHANGED ini
    /\ UNCHANGED obj

\* line 226: .click() of the element the wait returned
ClickElement ==
    /\ Running("click", "K226click")
    /\ \/ /\ Goto("K229")
          /\ hist' = [hist EXCEPT !.clicked = "clicked"]
          /\ UNCHANGED exc
       \/ /\ exc' = "WebDriverException"
          /\ hist' = [hist EXCEPT !.clicked = "raised", !.libRaised = TRUE]
          /\ UNCHANGED stack
    /\ UNCHANGED <<ret, log, steps, saved, attached, call, outcome, result>>
    /\ UNCHANGED ini
    /\ UNCHANGED obj

\* line 228, the inner except block: locator.click()
ClickFallback ==
    /\ Running("click", "K228")
    /\ \/ /\ Goto("K229")
          /\ hist' = [hist EXCEPT !.fallback = "clicked"]
          /\ UNCHANGED exc
       \/ /\ exc' = "WebDriverException"
          /\ hist' = [hist EXCEPT !.fallback = "raised", !.libRaised = TRUE]
          /\ UNCHANGED stack
    /\ UNCHANGED <<ret, log, steps, saved, attached, call, outcome, result>>
    /\ UNCHANGED ini
    /\ UNCHANGED obj

\* line 229: log_and_report("Clicked element for ...", function_name)
ClickLog ==
    /\ Running("click", "K229")
    /\ Push(LogFrame(Msg("Clicked element for ", Top.fname), Top.fname, FALSE, FALSE, FALSE))
    /\ UNCHANGED <<ret, log, steps, saved, attached, call, outcome, result, hist>>
    /\ UNCHANGED ini
    /\ UNCHANGED obj

\* the end of click: it returns None
ClickEnd ==
    /\ Running("click", "Kend")
    /\ Return(None)
    /\ UNCHANGED <<exc, log, steps, saved, attached, call, hist>>
    /\ UNCHANGED ini
    /\ UNCHANGED obj

\* line 231, the outer except block:
\* log_and_report("Failed to click element for ...", function_name, screenshot=True, driver=driver, trace=trace)
ClickLogFail ==
    /\ Running("click", "K231")
    /\ Push(LogFrame(Msg("Failed to click element for ", Top.fname), Top.fname, TRUE, Top.drv, FALSE))
    /\ UNCHANGED <<ret, log, steps, saved, attached, call, outcome, result, hist>>
    /\ UNCHANGED ini
    /\ UNCHANGED obj

\* line 232: pytest.fail()
ClickFail ==
    /\ Running("click", "K232")
    /\ exc' = "Failed"
    /\ UNCHANGED <<stack, ret, log, steps, saved, attached, call, outcome, result, hist>>
    /\ UNCHANGED ini
    /\ UNCHANGED obj

(***************************************************************************)
(* WebRunner.open_browser(browser, trace).                                 *)
(***************************************************************************)
Browsers == {"chrome"}

OpenBrowserFrame(browser) ==
    [Frame("open_browser", "O121") EXCEPT !.fname = "open_browser", !.msg = <<browser>>]

\* line 121: log_and_report("Run started at | " + test_start_timestamp + " |", function_name)
OpenBrowserLogStart ==
    /\ Running("open_browser", "O121")
    /\ Push(LogFrame(<<"Run started at | ", "test_start_timestamp", " |">>, Top.fname, FALSE, FALSE, FALSE))
    /\ UNCHANGED <<ret, log, steps, saved, attached, call, outcome, result, hist>>
    /\ UNCHANGED ini
    /\ UNCHANGED obj

\* Browser().call_browser(browser, trace), the launcher under its retry:
\* n counts the attempts that failed
CallBrowserFrame == Frame("call_browser", "attempt")

\* line 125: driver = Browser().call_browser(browser, trace), after driver = None
OpenBrowserLaunch ==
    /\ Running("open_browser", "O125")
    /\ Push(CallBrowserFrame)
    /\ UNCHANGED <<ret, log, steps, saved, attached, call, outcome, result, hist>>
    /\ UNCHANGED ini
    /\ UNCHANGED obj

\* Exceptions of the driver's constructor.
LaunchExceptions == {"SessionNotCreatedException", "WebDriverException"}

\* One attempt of the launcher: the driver is constructed and returned; or
\* the constructor raises, and the retry sleeps and tries again, or
\* re-raises this last exception when the attempts are exhausted.
CallBrowserAttempt ==
    /\ Running("call_browser", "attempt")
    /\ \/ /\ Return(Value("driver"))
          /\ hist' = [hist EXCEPT !.attempts = Append(@, "launched"), !.launched = TRUE]
          /\ webdriver' = NewDriver
          /\ UNCHANGED exc
       \/ \E e \in LaunchExceptions :
             /\ hist' = [hist EXCEPT !.attempts = Append(@, e)]
             /\ IF Top.n + 1 < Attempts
                THEN /\ stack' = SetTop([Top EXCEPT !.n = Top.n + 1])
                     /\ UNCHANGED exc
                ELSE /\ exc' = e
                     /\ UNCHANGED stack
             /\ UNCHANGED <<ret, outcome, result, webdriver>>
    /\ UNCHANGED <<log, steps, saved, attached, call>>
    /\ UNCHANGED ini
    /\ UNCHANGED self

\* line 126: log_and_report("... browser launched successfully", function_name, trace=trace)
OpenBrowserLogLaunched ==
    /\ Running("open_browser", "O126")
    /\ Push(LogFrame(<<Top.msg[1], " browser launched successfully">>, Top.fname, FALSE, FALSE, FALSE))
    /\ UNCHANGED <<ret, log, steps, saved, attached, call, outcome, result, hist>>
    /\ UNCHANGED ini
    /\ UNCHANGED obj

\* A mutant of OpenBrowserLogFailed: the driver passed is self.driver.
OpenBrowserLogFailedSelfDriver ==
    /\ Running("open_browser", "O128")
    /\ Push(LogFrame(<<Top.msg[1], " browser launch failed">>, Top.fname, TRUE, self.driver # None, FALSE))
    /\ UNCHANGED <<ret, log, steps, saved, attached, call, outcome, result, hist>>
    /\ UNCHANGED ini
    /\ UNCHANGED obj

\* line 128, the except block: log_and_report("... browser launch failed",
\* function_name, screenshot=True, driver=driver, trace=trace), driver being the local
OpenBrowserLogFailed ==
    /\ Running("open_browser", "O128")
    /\ Push(LogFrame(<<Top.msg[1], " browser launch failed">>, Top.fname, TRUE, Top.val # None, FALSE))
    /\ UNCHANGED <<ret, log, steps, saved, attached, call, outcome, result, hist>>
    /\ UNCHANGED ini
    /\ UNCHANGED obj

\* A mutant of OpenBrowserReraise: the failure is swallowed and None returned.
OpenBrowserSwallow ==
    /\ Running("open_browser", "O129")
    /\ Return(None)
    /\ UNCHANGED <<exc, log, steps, saved, attached, call, hist>>
    /\ UNCHANGED ini
    /\ UNCHANGED obj

\* line 129: raise
OpenBrowserReraise ==
    /\ Running("open_browser", "O129")
    /\ exc' = Top.caught
    /\ UNCHANGED <<stack, ret, log, steps, saved, attached, call, outcome, result, hist>>
    /\ UNCHANGED ini
    /\ UNCHANGED obj

\* lines 130-131: self.driver = driver; return self.driver
OpenBrowserStore ==
    /\ Running("open_browser", "O130")
    /\ self' = [self EXCEPT !.driver = Top.val]
    /\ Return(Top.val)
    /\ UNCHANGED <<exc, log, steps, saved, attached, call, hist>>
    /\ UNCHANGED ini
    /\ UNCHANGED webdriver

(***************************************************************************)
(* WebRunner.close_all_windows_except_current(driver, trace, report).      *)
(* The browser has a set of open windows (handles) and the window the       *)
(* driver is focused on.                                                   *)
(***************************************************************************)
Windows == 1..MaxWindows

\* driver.window_handles: the handles of the open windows, as a list
WindowHandles(d) ==
    CHOOSE q \in [1..Cardinality(d.handles) -> d.handles] :
        \A i, j \in DOMAIN q : i < j => q[i] < q[j]

\* driver.switch_to.window(window) of an open window
SwitchTo(d, window) == [d EXCEPT !.focus = window]

\* driver.close(): the focused window is closed; the focus stays on its handle
Close(d) == [d EXCEPT !.handles = @ \ {d.focus}]

CloseFrame ==
    [Frame("close_all_windows_except_current", "C498") EXCEPT
        !.fname = "close_all_windows_except_current", !.drv = TRUE]

AtClose(pc) == Running("close_all_windows_except_current", pc)

\* a call of the driver raises
DriverRaises(e) ==
    /\ exc' = e
    /\ hist' = [hist EXCEPT !.libRaised = TRUE, !.closeRaised = TRUE]
    /\ UNCHANGED <<stack, webdriver>>

\* line 498: current = driver.current_window_handle
CloseCurrent ==
    /\ AtClose("C498")
    /\ \/ /\ webdriver.focus \in webdriver.handles
          /\ stack' = SetTop([Top EXCEPT !.pc = "C499", !.current = webdriver.focus])
          /\ UNCHANGED <<exc, hist, webdriver>>
       \/ DriverRaises("WebDriverException")
    /\ UNCHANGED <<ret, log, steps, saved, attached, call, outcome, result>>
    /\ UNCHANGED ini
    /\ UNCHANGED self

\* line 499: for window in driver.window_handles (the list is read once)
CloseHandles ==
    /\ AtClose("C499")
    /\ \/ /\ stack' = SetTop([Top EXCEPT !.pc = "C500", !.todo = WindowHandles(webdriver)])
          /\ UNCHANGED <<exc, hist, webdriver>>
       \/ DriverRaises("WebDriverException")
    /\ UNCHANGED <<ret, log, steps, saved, attached, call, outcome, result>>
    /\ UNCHANGED ini
    /\ UNCHANGED self

\* lines 499-500: the next window of the list; if window != current
CloseNextWindow ==
    /\ AtClose("C500")
    /\ stack' = SetTop(
          IF Top.todo = <<>> THEN [Top EXCEPT !.pc = "C504"]
          ELSE IF Head(Top.todo) # Top.current THEN [Top EXCEPT !.pc = "C501"]
          ELSE [Top EXCEPT !.todo = Tail(@)])
    /\ UNCHANGED <<exc, ret, log, steps, saved, attached, call, outcome, result, hist>>
    /\ UNCHANGED ini
    /\ UNCHANGED obj

\* line 501: driver.switch_to.window(window)
CloseSwitch ==
    /\ AtClose("C501")
    /\ \/ /\ Head(Top.todo) \in webdriver.handles
          /\ webdriver' = SwitchTo(webdriver, Head(Top.todo))
          /\ Goto("C502")
          /\ UNCHANGED <<exc, hist>>
       \/ DriverRaises("NoSuchWindowException")
    /\ UNCHANGED <<ret, log, steps, saved, attached, call, outcome, result>>
    /\ UNCHANGED ini
    /\ UNCHANGED self

\* line 502: driver.close()
CloseWindow ==
    /\ AtClose("C502")
    /\ \/ /\ webdriver' = Close(webdriver)
          /\ stack' = SetTop([Top EXCEPT !.pc = "C500", !.todo = Tail(@)])
          /\ UNCHANGED <<exc, hist>>
       \/ DriverRaises("WebDriverException")
    /\ UNCHANGED <<ret, log, steps, saved, attached, call, outcome, result>>
    /\ UNCHANGED ini
    /\ UNCHANGED self

\* line 504: driver.switch_to.window(current)
CloseSwitchBack ==
    /\ AtClose("C504")
    /\ \/ /\ Top.current \in webdriver.handles
          /\ webdriver' = SwitchTo(webdriver, Top.current)
          /\ Goto("C505")
          /\ UNCHANGED <<exc, hist>>
       \/ DriverRaises("NoSuchWindowException")
    /\ UNCHANGED <<ret, log, steps, saved, attached, call, outcome, result>>
    /\ UNCHANGED ini
    /\ UNCHANGED self

\* line 505: log_and_report("Closed all windows except current window",
\* function_name, screenshot=True, driver=driver, trace=trace)
CloseLog ==
    /\ AtClose("C505")
    /\ Push(LogFrame(<<"Closed all windows except current window">>, Top.fname, TRUE, Top.drv, FALSE))
    /\ UNCHANGED <<ret, log, steps, saved, attached, call, outcome, result, hist>>
    /\ UNCHANGED ini
    /\ UNCHANGED obj

\* line 507, the except block: log_and_report("Failed to close all windows
\* except current", function_name, screenshot=True, driver=driver, trace=trace)
CloseLogFailed ==
    /\ AtClose("C507")
    /\ Push(LogFrame(<<"Failed to close all windows except current">>, Top.fname, TRUE, Top.drv, FALSE))
    /\ UNCHANGED <<ret, log, steps, saved, attached, call, outcome, result, hist>>
    /\ UNCHANGED ini
    /\ UNCHANGED obj

\* the end of the function: it returns None
CloseEnd ==
    /\ AtClose("Cend")
    /\ Return(None)
    /\ UNCHANGED <<exc, log, steps, saved, attached, call, hist>>
    /\ UNCHANGED ini
    /\ UNCHANGED obj

(***************************************************************************)
(* store_failed_xpaths: the INI file and configparser.                     *)
(*                                                                         *)
(* The file is a map from section names to maps from option names to the   *)
(* text written for the value.  A missing file reads as a file without     *)
(* sections.  Names are words and a key is the sequence of the words that  *)
(* the f-string joins with dots.                                           *)
(***************************************************************************)
Procs == {1, 2}

EmptyMap == [k \in {} |-> ""]

Put(m, k, v) == [x \in DOMAIN m \cup {k} |-> IF x = k THEN v ELSE m[x]]

\* str.lower of a word
Lower(w) ==
    CASE w = "Click" -> "click"
      [] w = "LoginPage" -> "loginpage"
      [] w = "HomePage" -> "homepage"
      [] w = "LOGIN" -> "login"
      [] w = "OTHER" -> "other"
      [] OTHER -> w

\* ConfigParser.optionxform: option names are lower-cased when set and when read
optionxform(key) == [k \in DOMAIN key |-> Lower(key[k])]

\* str.strip of a value: the parser strips the text of a value it reads
Strip(v) == IF v = " //a" THEN "//a" ELSE v

\* BasicInterpolation.before_set: a '%' that starts no %% or %(name)s is refused
InvalidInterpolation(v) == v = "//a[.='5%']"

\* "__" in s
HasDunder(w) == w \in {"__module__", "__dict__", "__weakref__", "__doc__"}

\* A mutant of ReadFile: the sections are read without their options.
ReadFileSectionsOnly(f) == [sec \in DOMAIN f |-> EmptyMap]

\* ConfigParser.read: the sections and options of the file, the values stripped
ReadFile(f) == [sec \in DOMAIN f |-> [k \in DOMAIN f[sec] |-> Strip(f[sec][k])]]

\* ConfigParser.write: every section and option, "key = value"
WriteFile(cfg) == cfg

\* A class of the loaded module: its __dict__ in definition order.
ClassDict(attrs) ==
    <<[name |-> "__module__", val |-> "<module name>"]>> \o attrs \o
    <<[name |-> "__dict__", val |-> "<attribute>"],
      [name |-> "__weakref__", val |-> "<attribute>"],
      [name |-> "__doc__", val |-> "<None>"]>>

\* isinstance(obj, type) and str(module_name) in str(obj)
Class(name, ofModule, attrs) == [name |-> name, ofModule |-> ofModule, attrs |-> ClassDict(attrs)]

LoginPage == Class("LoginPage", TRUE, <<[name |-> "LOGIN", val |-> "//a"]>>)

HomePage == Class("HomePage", TRUE, <<[name |-> "OTHER", val |-> "//b"]>>)

\* Caller modules: one class; two classes; the same two in the other order.
Modules == {<<LoginPage>>, <<LoginPage, HomePage>>, <<HomePage, LoginPage>>}

\* The caller two frames up: its module file, whether loading it works, and
\* the class of its self (hasSelf: 'self' is among its locals).
Callers ==
    {[module |-> m, loads |-> TRUE, hasSelf |-> TRUE, cls |-> "LoginPage"] : m \in Modules}
    \cup {[module |-> <<LoginPage>>, loads |-> FALSE, hasSelf |-> TRUE, cls |-> "LoginPage"],
          [module |-> <<LoginPage>>, loads |-> TRUE, hasSelf |-> FALSE, cls |-> "LoginPage"]}

ElementValues == {"//a", " //a", "//a[.='5%']"}

StoreFunctionNames == {"click", "Click"}

\* lines 818-821: the loop over one class's attributes, from attribute i
RECURSIVE ScanAttributes(_, _, _, _)
ScanAttributes(attrs, i, found, element_value) ==
    IF i > Len(attrs) THEN found
    ELSE LET var_name == attrs[i].name
             val == attrs[i].val
         IN  IF val = element_value /\ ~HasDunder(var_name) /\ ~HasDunder(val)
             THEN [var_present |-> TRUE, var_name |-> var_name]
             ELSE ScanAttributes(attrs, i + 1, [found EXCEPT !.var_name = var_name], element_value)

\* lines 815-817: the loop over the module's classes, from class k
RECURSIVE ScanModule(_, _, _, _)
ScanModule(module, k, found, element_value) ==
    IF k > Len(module) THEN found
    ELSE ScanModule(module, k + 1,
                    IF module[k].ofModule
                    THEN ScanAttributes(module[k].attrs, 1, found, element_value)
                    ELSE found,
                    element_value)

\* lines 812-823: var_name and var_present after the search
FindVariable(module, element_value) ==
    ScanModule(module, 1, [var_present |-> FALSE, var_name |-> ""], element_value)

\* lines 824-828: the key, as the words joined by dots
FailedXpathKey(class_name, function_name, found) ==
    IF found.var_present
    THEN <<class_name, function_name, found.var_name>>
    ELSE <<class_name, function_name>>

NoArg == [element_value |-> "", function_name |-> "", caller |-> [module |-> <<>>, loads |-> FALSE, hasSelf |-> FALSE, cls |-> ""],
          key |-> <<>>, found |-> [var_present |-> FALSE, var_name |-> ""], error |-> "none"]

NoStoreHist ==
    [order |-> <<>>, saw |-> [p \in Procs |-> {}], store |-> EmptyMap, written |-> EmptyMap,
     last |-> [proc |-> 0, file |-> EmptyMap, config |-> EmptyMap]]

\* No process is in store_failed_xpaths.
IniIdle ==
    /\ file = EmptyMap
    /\ torn = FALSE
    /\ config = [p \in Procs |-> EmptyMap]
    /\ spc = [p \in Procs |-> "idle"]
    /\ sarg = [p \in Procs |-> NoArg]
    /\ sres = [p \in Procs |-> "none"]
    /\ budget = [p \in Procs |-> 0]
    /\ shist = NoStoreHist

(***************************************************************************)
(* The top-level call.                                                     *)
(***************************************************************************)
NoHist ==
    [driverRaised |-> FALSE, func |-> "none", logAtFunc |-> <<>>,
     libRaised |-> FALSE, predTrue |-> FALSE, timedOut |-> FALSE,
     found |-> FALSE, displayed |-> "none", scrollRaised |-> FALSE,
     clicked |-> "none", fallback |-> "none",
     attempts |-> <<>>, launched |-> FALSE, closeRaised |-> FALSE]

\* A browser session as Selenium starts it: no implicit wait, one window.
RunIdle ==
    /\ stack = <<>>
    /\ exc = "none"
    /\ ret = None
    /\ log = <<>>
    /\ steps = <<>>
    /\ saved = 0
    /\ attached = 0
    /\ call = [fn |-> "none"]
    /\ outcome = "idle"
    /\ result = None
    /\ hist = NoHist
    /\ webdriver = NewDriver
    /\ self = NewSelf

Init == RunIdle /\ IniIdle

CallLogAndReport ==
    /\ outcome = "idle"
    /\ \E m \in Messages, f \in FunctionNames, s \in BOOLEAN, d \in BOOLEAN, r \in BOOLEAN :
          /\ call' = [fn |-> "log_and_report", msg |-> m, fname |-> f, shot |-> s, drv |-> d, rep |-> r]
          /\ stack' = <<LogFrame(m, f, s, d, r)>>
    /\ outcome' = "running"
    /\ UNCHANGED <<exc, ret, log, steps, saved, attached, result, hist>>
    /\ UNCHANGED ini
    /\ UNCHANGED obj

CallWrapped ==
    /\ outcome = "idle"
    /\ \E s \in StepNames, nargs \in {1, 2} :
          /\ call' = [fn |-> "wrapper", fname |-> s, nargs |-> nargs]
          /\ stack' = <<WrapperFrame(s, nargs)>>
    /\ outcome' = "running"
    /\ UNCHANGED <<exc, ret, log, steps, saved, attached, result, hist>>
    /\ UNCHANGED ini
    /\ UNCHANGED obj

CallHelper ==
    /\ outcome = "idle"
    /\ \E h \in Helpers, f \in FunctionNames, w \in ImplicitWaits :
          LET function_name == IF TakesFunctionName(h) THEN f ELSE h
              d == [webdriver EXCEPT !.implicit_wait = IF h = "is_visible_on_screen" THEN w ELSE @]
          IN  /\ webdriver' = d
              /\ call' = [fn |-> h, fname |-> function_name, driver |-> d]
              /\ stack' = <<HelperFrame(h, function_name)>>
    /\ outcome' = "running"
    /\ UNCHANGED <<exc, ret, log, steps, saved, attached, result, hist>>
    /\ UNCHANGED ini
    /\ UNCHANGED self

CallClick ==
    /\ outcome = "idle"
    /\ \E f \in FunctionNames :
          /\ call' = [fn |-> "click", fname |-> f, driver |-> webdriver]
          /\ stack' = <<ClickFrame(f)>>
    /\ outcome' = "running"
    /\ UNCHANGED <<exc, ret, log, steps, saved, attached, result, hist>>
    /\ UNCHANGED ini
    /\ UNCHANGED obj

\* self.driver before the call: unset, or the driver of an earlier open_browser.
EarlierDrivers == {None, Value("earlier driver")}

CallOpenBrowser ==
    /\ outcome = "idle"
    /\ \E b \in Browsers, d \in EarlierDrivers :
          /\ self' = [self EXCEPT !.driver = d]
          /\ call' = [fn |-> "open_browser", fname |-> "open_browser", browser |-> b,
                      self |-> [self EXCEPT !.driver = d]]
          /\ stack' = <<OpenBrowserFrame(b)>>
    /\ outcome' = "running"
    /\ UNCHANGED <<exc, ret, log, steps, saved, attached, result, hist>>
    /\ UNCHANGED ini
    /\ UNCHANGED webdriver

CallCloseWindows ==
    /\ outcome = "idle"
    /\ \E handles \in SUBSET Windows :
          \E focus \in handles :
             LET d == [webdriver EXCEPT !.handles = handles, !.focus = focus]
             IN  /\ webdriver' = d
                 /\ call' = [fn |-> "close_all_windows_except_current",
                             fname |-> "close_all_windows_except_current", driver |-> d]
    /\ stack' = <<CloseFrame>>
    /\ outcome' = "running"
    /\ UNCHANGED <<exc, ret, log, steps, saved, attached, result, hist>>
    /\ UNCHANGED ini
    /\ UNCHANGED self

Next ==
    \/ CallLogAndReport
    \/ CallCloseWindows
    \/ CloseCurrent
    \/ CloseHandles
    \/ CloseNextWindow
    \/ CloseSwitch
    \/ CloseWindow
    \/ CloseSwitchBack
    \/ CloseLog
    \/ CloseLogFailed
    \/ CloseEnd
    \/ CallOpenBrowser
    \/ OpenBrowserLogStart
    \/ OpenBrowserLaunch
    \/ CallBrowserAttempt
    \/ OpenBrowserLogLaunched
    \/ OpenBrowserLogFailed
    \/ OpenBrowserReraise
    \/ OpenBrowserStore
    \/ CallClick
    \/ ClickScroll
    \/ ClickWait
    \/ ClickElement
    \/ ClickFallback
    \/ ClickLog
    \/ ClickEnd
    \/ ClickLogFail
    \/ ClickFail
    \/ CallWrapped
    \/ CallHelper
    \/ HelperDriverCall
    \/ HelperWait
    \/ UntilPoll
    \/ HelperScroll
    \/ HelperLog
    \/ HelperLogFail
    \/ HelperFail
    \/ HelperReturn
    \/ HelperEnd
    \/ Propagate
    \/ LogInfo
    \/ ReportStep
    \/ CheckScreenshot
    \/ CallScreenshot
    \/ AttachScreenshot
    \/ ReturnMessage
    \/ SaveScreenshot
    \/ ScreenshotAttach
    \/ ScreenshotLogCaptured
    \/ ScreenshotLogFailed
    \/ ScreenshotReturn
    \/ WrapperStart
    \/ WrapperCallFunc
    \/ WrapperSuccess
    \/ WrapperReturn
    \/ WrapperFail
    \/ WrapperReraise

(***************************************************************************)
(* Claims about the reporting helpers.                                     *)
(***************************************************************************)
Count(s, m) == Cardinality({k \in DOMAIN s : s[k] = m})

Ended == outcome \in {"returned", "raised"}

StartMsg == Msg("START: ", call.fname)

SuccessMsg == Msg("SUCCESS: ", call.fname)

IsFailMsg(m) == Len(m) = 4 /\ m[1] = "FAIL: " /\ m[2] = call.fname

NumSuccess == Count(log, SuccessMsg)

NumFail == Cardinality({k \in DOMAIN log : IsFailMsg(log[k])})

\* C1: for every call of a function wrapped by log_step, START is logged
\* before the wrapped function runs and before any SUCCESS or FAIL entry, and
\* when the call has ended exactly one of SUCCESS (the wrapper returned the
\* function's result) or FAIL (the wrapper raised) has been logged.
C1_StartThenExactlyOneOutcome ==
    call.fn = "wrapper" =>
        /\ log # <<>> => log[1] = StartMsg
        /\ hist.func # "none" => hist.logAtFunc = <<StartMsg>>
        /\ NumSuccess + NumFail <= 1
        /\ Ended =>
            /\ NumSuccess + NumFail = 1
            /\ NumSuccess = 1 => outcome = "returned" /\ result = Value("func result")
            /\ NumFail = 1 => outcome = "raised"

\* C2: when the wrapped function raises an exception, the exception that
\* reaches the caller of the wrapper is that same exception, whatever the
\* driver did while the screenshot was taken.
C2_ReraisesSameException ==
    (call.fn = "wrapper" /\ hist.func = "E_func" /\ Ended) =>
        (outcome = "raised" /\ result = Value("E_func"))

\* C3: log_and_report never raises, whatever its arguments are and whatever
\* the driver does.
C3_LogAndReportNeverRaises ==
    call.fn = "log_and_report" => outcome # "raised"

\* The messages WebRunner.screenshot logs itself (lines 386 and 388).
ScreenshotMessages(function_name) ==
    {Msg("Screenshot captured for ", function_name),
     Msg("Failed to capture screenshot for ", function_name)}

ReturnedLogAndReport == call.fn = "log_and_report" /\ outcome = "returned"

\* C4 as stated: a returning log_and_report(message, ...) returns message,
\* has written message to the logger exactly once, records a report step iff
\* a report was given, and captures a screenshot iff screenshot is true and a
\* driver was given.
C4_Original ==
    ReturnedLogAndReport =>
        /\ result = call.msg
        /\ Count(log, call.msg) = 1
        /\ steps = (IF call.rep THEN <<call.msg>> ELSE <<>>)
        /\ (saved + attached > 0) <=> (call.shot /\ call.drv)

\* C4 as amended: a returning log_and_report(message, ...) returns message
\* and has written message to the logger first; the log holds message
\* exactly once unless message is one of the texts WebRunner.screenshot logs
\* itself, which the nested calls may log again; it records a report step iff
\* a report was given, and attaches a screenshot iff screenshot is true and a
\* driver was given.
C4_ReturnsMessageLoggedOnce ==
    ReturnedLogAndReport =>
        /\ result = call.msg
        /\ log # <<>> /\ log[1] = call.msg
        /\ call.msg \notin ScreenshotMessages(call.fname) => Count(log, call.msg) = 1
        /\ steps = (IF call.rep THEN <<call.msg>> ELSE <<>>)
        /\ (attached > 0) <=> (call.shot /\ call.drv)
        /\ (saved > 0) => (call.shot /\ call.drv)

\* C4 witness: a call with a report, a driver and screenshot=True has
\* returned after a failed and a successful capture.
C4_Witness ==
    /\ ReturnedLogAndReport
    /\ call.rep /\ call.shot /\ call.drv
    /\ hist.driverRaised
    /\ saved > 0
    /\ attached > 1

(***************************************************************************)
(* Claims about the helpers that call into the driver.                     *)
(***************************************************************************)
\* Exceptions raised by the driver library.
LibraryExceptions == {"WebDriverException", "TimeoutException", "E_save", "E_png"}

\* The failure messages of a helper and of scroll_to_element, which it may call.
FailureMessages(fn, function_name) ==
    {Subst(Program(h)[part][k].m, [fname |-> function_name]) :
        <<h, part, k>> \in {t \in {fn, "scroll_to_element"} \X {"body", "handler"} \X (1..6) :
                                /\ t[3] <= Len(Program(t[1])[t[2]])
                                /\ Program(t[1])[t[2]][t[3]].op = "logfail"}}

FailureLogged ==
    \E k \in DOMAIN log : log[k] \in FailureMessages(call.fn, call.fname)

\* C5: in every helper that calls into the driver, an exception raised by the
\* library call is caught, a failure message is logged and a screenshot is
\* taken, and only then the helper re-raises, fails the test or returns its
\* default: no library exception escapes and no default is returned unlogged.
C5_UniformErrorHandling ==
    (call.fn \in Helpers /\ hist.libRaised /\ Ended) =>
        /\ ~(outcome = "raised" /\ result \in {Value(e) : e \in LibraryExceptions})
        /\ FailureLogged
        /\ saved + attached > 0 \/ hist.driverRaised

WaitHelpers ==
    {"explicit_wait_presence_of_element", "explicit_wait_presence_of_element_is_invisible",
     "explicit_is_element_displayed", "is_visible", "is_visible_on_screen",
     "confirm_alert", "find_frame_by_id", "find_frame_by_name"}

\* What a wait helper returns when it succeeds.
SuccessValue(fn) ==
    CASE fn \in {"is_visible", "is_visible_on_screen"} -> Value("True")
      [] fn = "explicit_is_element_displayed" -> Value("element")
      [] OTHER -> None

SuccessOutcome == outcome = "returned" /\ result = SuccessValue(call.fn)

\* The failure outcome of a wait helper: the test failed (pytest.fail), or
\* False or None was returned.
FailureOutcome ==
    \/ outcome = "raised" /\ result = Value("Failed")
    \/ /\ outcome = "returned"
       /\ \/ call.fn \in {"is_visible", "is_visible_on_screen"} /\ result = Value("False")
          \/ call.fn = "explicit_is_element_displayed" /\ result = None

\* C6 (outcomes): a call of a wait helper that has ended has its success
\* outcome only if the predicate became true within the timeout, and has its
\* failure outcome (test failed, False or None) otherwise.
C6_BoundedWaitOutcome ==
    (call.fn \in WaitHelpers /\ Ended) =>
        /\ SuccessOutcome => hist.predTrue
        /\ ~hist.predTrue => FailureOutcome

\* C6 (termination): every call eventually ends, under FairSpec.
C6_CallEnds == (outcome = "running") ~> Ended

\* A result that counts as true in a condition: neither False, None nor [].
Truthy(v) == v \notin {Value("False"), None, Value("[]")}

\* C11: a call of is_element_displayed returns; it returns a true result
\* only when the element was found and its is_displayed() check returned
\* True; and when a step raised, the failure is logged and False is returned.
C11_DisplayedOnlyWhenShown ==
    (call.fn = "is_element_displayed" /\ Ended) =>
        /\ outcome = "returned"
        /\ Truthy(result) => (hist.found /\ hist.displayed = Value(TRUE))
        /\ hist.libRaised => (result = Value("False") /\ FailureLogged)

\* C12: a call of is_visible_on_screen returns True or False, True only when
\* the element became visible within wait_time; it never raises; and the
\* implicit wait of the driver after the call is what it was before the call.
C12_ImplicitWaitRestored ==
    (call.fn = "is_visible_on_screen" /\ Ended) =>
        /\ outcome = "returned"
        /\ result \in {Value("True"), Value("False")}
        /\ result = Value("True") => hist.predTrue
        /\ webdriver.implicit_wait = call.driver.implicit_wait

LocatorHelpers == {"web_locator", "web_locators_list"}

\* What a locator helper returns when the locator resolves, and on failure.
Located(fn) == IF fn = "web_locator" THEN Value("element") ELSE Value("elements")

NotLocated(fn) == IF fn = "web_locator" THEN None ELSE Value("[]")

\* C13: a call of web_locator or web_locators_list never raises and never
\* fails the test: it returns the element (the list of elements) when no
\* step of the call failed, and None (the empty list) when the wait, the
\* find or the scroll failed.
C13_LocatorsNeverRaise ==
    (call.fn \in LocatorHelpers /\ Ended) =>
        /\ outcome = "returned"
        /\ result = (IF hist.libRaised THEN NotLocated(call.fn) ELSE Located(call.fn))

ClickedMsg == Msg("Clicked element for ", call.fname)

\* C14: in a call of click, 'Clicked element' is logged only after one of
\* the two clicks succeeded; when the call has ended without the first click
\* having succeeded, the direct locator.click() was attempted; and the call
\* fails the test or raises only if that direct click failed.
C14_FallbackAlwaysAttempted ==
    call.fn = "click" =>
        /\ Count(log, ClickedMsg) > 0 => (hist.clicked = "clicked" \/ hist.fallback = "clicked")
        /\ (Ended /\ hist.clicked # "clicked") => hist.fallback # "none"
        /\ outcome = "raised" => hist.fallback = "raised"

\* The launch attempts of the call that failed.
FailedAttempts == {k \in DOMAIN hist.attempts : hist.attempts[k] \in LaunchExceptions}

LastAttempt == hist.attempts[Len(hist.attempts)]

\* C15: in a call of open_browser, a launch attempt that fails is followed
\* by a further attempt until the attempts are exhausted; the call raises
\* exactly when every one of the attempts failed, and what it raises is the
\* exception of the last attempt.
C15_RetriesThenReraisesLast ==
    (call.fn = "open_browser" /\ Ended) =>
        /\ Len(hist.attempts) <= Attempts
        /\ \A k \in FailedAttempts : k < Attempts => k + 1 \in DOMAIN hist.attempts
        /\ outcome = "raised" <=> FailedAttempts = 1..Attempts
        /\ outcome = "raised" => result = Value(LastAttempt)

\* C15 witness: the launch failed with one exception, then with another,
\* and the call raised.
C15_Witness ==
    /\ call.fn = "open_browser"
    /\ outcome = "raised"
    /\ Len(hist.attempts) > 1
    /\ hist.attempts[1] # LastAttempt

LaunchedMsg == <<call.browser, " browser launched successfully">>

LaunchFailedMsg == <<call.browser, " browser launch failed">>

\* C16: a call of open_browser that gets a driver from call_browser returns
\* it and has stored it in self.driver; a call in which call_browser raises
\* has logged the launch failure, raises that same exception, leaves
\* self.driver as it was and captures no screenshot.
C16_ReturnsDriverOrReraises ==
    (call.fn = "open_browser" /\ Ended) =>
        IF hist.launched
        THEN /\ outcome = "returned"
             /\ result = Value("driver")
             /\ self.driver = Value("driver")
             /\ Count(log, LaunchedMsg) = 1
             /\ Count(log, LaunchFailedMsg) = 0
        ELSE /\ outcome = "raised"
             /\ result = Value(LastAttempt)
             /\ Count(log, LaunchFailedMsg) = 1
             /\ self = call.self
             /\ saved = 0 /\ attached = 0

\* C16 witness: an object that holds the driver of an earlier launch, and a
\* launch that failed.
C16_Witness ==
    /\ call.fn = "open_browser"
    /\ outcome = "raised"
    /\ self.driver = Value("earlier driver")
    /\ Count(log, LaunchFailedMsg) = 1

\* C17: a call of close_all_windows_except_current never raises, and when
\* it has returned the only open window is the one that was current at the
\* call and the driver is focused on it, whatever windows were open.
C17_OnlyCurrentWindowLeft ==
    (call.fn = "close_all_windows_except_current" /\ Ended) =>
        /\ outcome = "returned"
        /\ webdriver.handles = {call.driver.focus}
        /\ webdriver.focus = call.driver.focus

Spec == Init /\ [][Next]_vars

(***************************************************************************)
(* store_failed_xpaths(element_value, function_name), statement by         *)
(* statement, for a test process p.                                        *)
(***************************************************************************)
\* The file as a test run finds it: missing, with its two sections, with an
\* entry of an earlier run, or without the 'Failed To Locate' section.
InitialFiles ==
    {EmptyMap,
     [sec \in {"Failed XPaths", "Failed To Locate"} |-> EmptyMap],
     [sec \in {"Failed XPaths", "Failed To Locate"} |->
        IF sec = "Failed XPaths" THEN Put(EmptyMap, <<"homepage", "open">>, "//old") ELSE EmptyMap],
     [sec \in {"Failed XPaths"} |-> EmptyMap]}

\* line 793: the call
StoreCall(p) ==
    /\ spc[p] = "idle"
    /\ budget[p] > 0
    /\ \E v \in ElementValues, f \in StoreFunctionNames, c \in Callers :
          sarg' = [sarg EXCEPT ![p] = [NoArg EXCEPT !.element_value = v, !.function_name = f, !.caller = c]]
    /\ spc' = [spc EXCEPT ![p] = "read"]
    /\ budget' = [budget EXCEPT ![p] = @ - 1]
    /\ sres' = [sres EXCEPT ![p] = "none"]
    /\ shist' = [shist EXCEPT !.last = [proc |-> p, file |-> file, config |-> config[p]]]
    /\ UNCHANGED <<file, torn, config>>
    /\ UNCHANGED run
    /\ UNCHANGED obj

\* A mutant of StoreRead: the parser is made and the file read only when
\* the global config is still empty.
StoreReadCached(p) ==
    /\ spc[p] = "read"
    /\ config' = [config EXCEPT ![p] = IF config[p] = EmptyMap THEN ReadFile(file) ELSE config[p]]
    /\ shist' = [shist EXCEPT !.saw[p] = {shist.order[k] : k \in DOMAIN shist.order}]
    /\ spc' = [spc EXCEPT ![p] = "resolve"]
    /\ UNCHANGED <<file, torn, sarg, sres, budget>>
    /\ UNCHANGED run
    /\ UNCHANGED obj

\* lines 802-804: config = configparser.ConfigParser(); config.read(store_coordinates)
StoreRead(p) ==
    /\ spc[p] = "read"
    /\ config' = [config EXCEPT ![p] = ReadFile(file)]
    /\ shist' = [shist EXCEPT !.saw[p] = {shist.order[k] : k \in DOMAIN shist.order}]
    /\ spc' = [spc EXCEPT ![p] = "resolve"]
    /\ UNCHANGED <<file, torn, sarg, sres, budget>>
    /\ UNCHANGED run
    /\ UNCHANGED obj

\* lines 805-828: the caller's module is loaded and searched, the key is built;
\* exec_module or f_locals['self'] may raise, which leads to the except block
StoreResolve(p) ==
    /\ spc[p] = "resolve"
    /\ LET a == sarg[p]
           found == FindVariable(a.caller.module, a.element_value)
       IN  IF a.caller.loads /\ a.caller.hasSelf
           THEN /\ sarg' = [sarg EXCEPT ![p].found = found,
                                        ![p].key = FailedXpathKey(a.caller.cls, a.function_name, found)]
                /\ spc' = [spc EXCEPT ![p] = "set"]
           ELSE /\ sarg' = [sarg EXCEPT ![p].error = IF a.caller.loads THEN "KeyError: self" ELSE "ImportError"]
                /\ spc' = [spc EXCEPT ![p] = "except"]
    /\ UNCHANGED <<file, torn, config, sres, budget, shist>>
    /\ UNCHANGED run
    /\ UNCHANGED obj

\* A mutant of SetOption: the option is stored under the name as given.
SetOptionCaseSensitive(cfg, section, key, value) ==
    [cfg EXCEPT ![section] = Put(cfg[section], key, value)]

\* config[section][key] = value
SetOption(cfg, section, key, value) ==
    [cfg EXCEPT ![section] = Put(cfg[section], optionxform(key), value)]

\* config[section][...] = value raises: KeyError without the section,
\* ValueError for a value with an invalid '%'
SetRaises(cfg, section, value) ==
    section \notin DOMAIN cfg \/ InvalidInterpolation(value)

\* line 829: config["Failed XPaths"][function_name] = element_value
StoreSet(p) ==
    /\ spc[p] = "set"
    /\ IF SetRaises(config[p], "Failed XPaths", sarg[p].element_value)
       THEN /\ sarg' = [sarg EXCEPT ![p].error = "KeyError or ValueError"]
            /\ spc' = [spc EXCEPT ![p] = "except"]
            /\ UNCHANGED config
       ELSE /\ config' = [config EXCEPT ![p] = SetOption(@, "Failed XPaths", sarg[p].key, sarg[p].element_value)]
            /\ spc' = [spc EXCEPT ![p] = "open"]
            /\ UNCHANGED sarg
    /\ UNCHANGED <<file, torn, sres, budget, shist>>
    /\ UNCHANGED run
    /\ UNCHANGED obj

\* lines 830 and 835: open(store_coordinates, "w") truncates the file
StoreOpen(p) ==
    /\ spc[p] \in {"open", "except open"}
    /\ file' = EmptyMap
    /\ spc' = [spc EXCEPT ![p] = IF spc[p] = "open" THEN "write" ELSE "except write"]
    /\ UNCHANGED <<torn, config, sarg, sres, budget, shist>>
    /\ UNCHANGED run
    /\ UNCHANGED obj

\* What the calls so far describe: the entry of the key holds the value.
Described(store, key, value) == Put(store, optionxform(key), Strip(value))

\* lines 831-832: config.write(file); the file is closed
StoreWrite(p) ==
    /\ spc[p] = "write"
    /\ file' = WriteFile(config[p])
    /\ torn' = (torn \/ file # EmptyMap)
    /\ shist' = [shist EXCEPT !.order = Append(@, p),
                              !.store = Described(@, sarg[p].key, sarg[p].element_value),
                              !.written = Put(@, sarg[p].key, sarg[p].element_value)]
    /\ sres' = [sres EXCEPT ![p] = "stored"]
    /\ spc' = [spc EXCEPT ![p] = "idle"]
    /\ UNCHANGED <<config, sarg, budget>>
    /\ UNCHANGED run
    /\ UNCHANGED obj

\* line 834, in the except block:
\* config["Failed To Locate"]["failed_to_locate"] = element_value
StoreExcept(p) ==
    /\ spc[p] = "except"
    /\ IF SetRaises(config[p], "Failed To Locate", sarg[p].element_value)
       THEN /\ sres' = [sres EXCEPT ![p] = "raised"]
            /\ spc' = [spc EXCEPT ![p] = "idle"]
            /\ UNCHANGED config
       ELSE /\ config' = [config EXCEPT ![p] = SetOption(@, "Failed To Locate", <<"failed_to_locate">>, sarg[p].element_value)]
            /\ spc' = [spc EXCEPT ![p] = "except open"]
            /\ UNCHANGED sres
    /\ UNCHANGED <<file, torn, sarg, budget, shist>>
    /\ UNCHANGED run
    /\ UNCHANGED obj

\* lines 836-837: config.write(file) in the except block
StoreExceptWrite(p) ==
    /\ spc[p] = "except write"
    /\ file' = WriteFile(config[p])
    /\ torn' = (torn \/ file # EmptyMap)
    /\ shist' = [shist EXCEPT !.order = Append(@, p)]
    /\ sres' = [sres EXCEPT ![p] = "fallback"]
    /\ spc' = [spc EXCEPT ![p] = "idle"]
    /\ UNCHANGED <<config, sarg, budget>>
    /\ UNCHANGED run
    /\ UNCHANGED obj

StoreNext ==
    \E p \in Procs :
        \/ StoreCall(p)
        \/ StoreRead(p)
        \/ StoreResolve(p)
        \/ StoreSet(p)
        \/ StoreOpen(p)
        \/ StoreWrite(p)
        \/ StoreExcept(p)
        \/ StoreExceptWrite(p)

\* One test process calls store_failed_xpaths MaxCalls times in a row.
StoreInit ==
    /\ RunIdle
    /\ file \in InitialFiles
    /\ torn = FALSE
    /\ config = [p \in Procs |-> EmptyMap]
    /\ spc = [p \in Procs |-> "idle"]
    /\ sarg = [p \in Procs |-> NoArg]
    /\ sres = [p \in Procs |-> "none"]
    /\ budget = [p \in Procs |-> IF p = 1 THEN MaxCalls ELSE 0]
    /\ shist = [NoStoreHist EXCEPT !.store = IF "Failed XPaths" \in DOMAIN file THEN file["Failed XPaths"] ELSE EmptyMap]

SpecStore == StoreInit /\ [][StoreNext]_vars

\* Two test processes call store_failed_xpaths once each, in parallel.
ParallelInit ==
    /\ RunIdle
    /\ file \in InitialFiles
    /\ torn = FALSE
    /\ config = [p \in Procs |-> EmptyMap]
    /\ spc = [p \in Procs |-> "idle"]
    /\ sarg = [p \in Procs |-> NoArg]
    /\ sres = [p \in Procs |-> "none"]
    /\ budget = [p \in Procs |-> 1]
    /\ shist = [NoStoreHist EXCEPT !.store = IF "Failed XPaths" \in DOMAIN file THEN file["Failed XPaths"] ELSE EmptyMap]

SpecParallel == ParallelInit /\ [][StoreNext]_vars

\* A call begins only when no call is running: the calls do not overlap.
StoreCallInTurn(p) == (\A q \in Procs : spc[q] = "idle") /\ StoreCall(p)

SequenceNext ==
    \E p \in Procs :
        \/ StoreCallInTurn(p)
        \/ StoreRead(p)
        \/ StoreResolve(p)
        \/ StoreSet(p)
        \/ StoreOpen(p)
        \/ StoreWrite(p)
        \/ StoreExcept(p)
        \/ StoreExceptWrite(p)

\* Two test processes call store_failed_xpaths in turn: one of them twice,
\* the other once, in any order (a call, the other's call, a call again).
SequenceInit ==
    /\ RunIdle
    /\ file \in InitialFiles
    /\ torn = FALSE
    /\ config = [p \in Procs |-> EmptyMap]
    /\ spc = [p \in Procs |-> "idle"]
    /\ sarg = [p \in Procs |-> NoArg]
    /\ sres = [p \in Procs |-> "none"]
    /\ budget = [p \in Procs |-> IF p = 1 THEN 2 ELSE 1]
    /\ shist = [NoStoreHist EXCEPT !.store = IF "Failed XPaths" \in DOMAIN file THEN file["Failed XPaths"] ELSE EmptyMap]

SpecSequence == SequenceInit /\ [][SequenceNext]_vars

(***************************************************************************)
(* Claims about the failed-xpath store.                                    *)
(***************************************************************************)
\* The options of section 'Failed XPaths' as a reader of the file finds them.
FailedXPaths ==
    IF "Failed XPaths" \in DOMAIN file THEN ReadFile(file)["Failed XPaths"] ELSE EmptyMap

Quiet == \A p \in Procs : spc[p] = "idle"

\* C7 as stated: after sequential calls, for every key a call wrote on the
\* normal path, the value under that key is the literal element_value of the
\* most recent call that wrote that key.
C7_Original ==
    Quiet =>
        \A key \in DOMAIN shist.written :
            /\ optionxform(key) \in DOMAIN FailedXPaths
            /\ FailedXPaths[optionxform(key)] = shist.written[key]

\* C7 as amended: the store is last-write-wins per key up to letter case:
\* after any sequence of sequential calls, section 'Failed XPaths' holds, for
\* every key, the element_value (its surrounding whitespace stripped) of the
\* most recent normal-path call that wrote a key equal to it when
\* lower-cased, and every other entry is as it was.
C7_LastWriteWinsPerLowerCaseKey ==
    Quiet => FailedXPaths = shist.store

\* C7 witness: two calls have written keys that differ only in letter case,
\* and the entry of an earlier run is still in the file.
C7_Witness ==
    /\ Quiet
    /\ \E k1, k2 \in DOMAIN shist.written : k1 # k2 /\ optionxform(k1) = optionxform(k2)
    /\ <<"homepage", "open">> \in DOMAIN FailedXPaths

LastWriter == shist.order[Len(shist.order)]

BothStored(p, q) ==
    /\ p # q
    /\ Quiet
    /\ sres[p] = "stored"
    /\ sres[q] = "stored"
    /\ ~torn
    /\ optionxform(sarg[p].key) # optionxform(sarg[q].key)

\* C8: two processes run store_failed_xpaths concurrently for two different
\* keys.  When both have stored and q wrote last, q's entry is in the file,
\* and p's entry is in the file only if q read the file after p wrote it: in
\* every interleaving in which q read before p wrote, p's entry is lost.
C8_LostUpdate ==
    \A p, q \in Procs :
        (BothStored(p, q) /\ LastWriter = q) =>
            /\ optionxform(sarg[q].key) \in DOMAIN FailedXPaths
            /\ FailedXPaths[optionxform(sarg[q].key)] = Strip(sarg[q].element_value)
            /\ optionxform(sarg[p].key) \in DOMAIN FailedXPaths <=> p \in shist.saw[q]

\* C8 witness: both calls have stored and the file holds one of the two entries.
C8_Witness ==
    \E p, q \in Procs :
        /\ BothStored(p, q)
        /\ optionxform(sarg[q].key) \in DOMAIN FailedXPaths
        /\ optionxform(sarg[p].key) \notin DOMAIN FailedXPaths

\* C9: a call in which an error occurred falls back: it does not raise, and
\* afterwards the file holds failed_to_locate = element_value under
\* 'Failed To Locate'.
C9_FallsBackOnAnyError ==
    \A p \in Procs :
        (spc[p] = "idle" /\ sarg[p].error # "none") =>
            /\ sres[p] = "fallback"
            /\ "Failed To Locate" \in DOMAIN file
            /\ <<"failed_to_locate">> \in DOMAIN file["Failed To Locate"]
            /\ file["Failed To Locate"][<<"failed_to_locate">>] = sarg[p].element_value

\* The class attributes of the caller's module that hold the value.
AttributesWithValue(module, value) ==
    {module[k].attrs[i].name :
        <<k, i>> \in {t \in (DOMAIN module) \X (1..8) :
                        /\ t[2] \in DOMAIN module[t[1]].attrs
                        /\ module[t[1]].ofModule
                        /\ module[t[1]].attrs[t[2]].val = value}}

\* C10: when the key a call wrote ends in a variable name, that variable is
\* a class attribute of a class of the caller's module whose value is
\* element_value, whatever the number of classes of the module; and when no
\* attribute has that value the key carries no variable name.
C10_VariableNameHoldsTheLocator ==
    \A p \in Procs :
        (spc[p] = "idle" /\ sres[p] = "stored") =>
            LET named == AttributesWithValue(sarg[p].caller.module, sarg[p].element_value)
            IN  /\ Len(sarg[p].key) = 3 => sarg[p].key[3] \in named
                /\ named = {} => Len(sarg[p].key) = 2

\* What a call of store_failed_xpaths with arguments a does to the file f,
\* starting from a parser that holds nothing but what it reads from f.
StoreOutcome(f, a) ==
    LET cfg == ReadFile(f)
        key == FailedXpathKey(a.caller.cls, a.function_name,
                              FindVariable(a.caller.module, a.element_value))
    IN  IF a.caller.loads /\ a.caller.hasSelf /\ ~SetRaises(cfg, "Failed XPaths", a.element_value)
        THEN [res |-> "stored",
              file |-> WriteFile(SetOption(cfg, "Failed XPaths", key, a.element_value))]
        ELSE IF SetRaises(cfg, "Failed To Locate", a.element_value)
        THEN [res |-> "raised", file |-> f]
        ELSE [res |-> "fallback",
              file |-> WriteFile(SetOption(cfg, "Failed To Locate", <<"failed_to_locate">>, a.element_value))]

\* The call that began last has ended and no other call has begun.
LastCallEnded == shist.last.proc \in Procs /\ Quiet

\* C18: the outcome of a call of store_failed_xpaths (how it ends and what
\* the file holds afterwards) is determined by its arguments and the file as
\* the call found it: the module-level config left behind by the process's
\* earlier call has no part in it.
C18_OutcomeFromArgumentsAndFile ==
    LastCallEnded =>
        LET c == shist.last
            o == StoreOutcome(c.file, [element_value |-> sarg[c.proc].element_value,
                                       function_name |-> sarg[c.proc].function_name,
                                       caller |-> sarg[c.proc].caller])
        IN  /\ sres[c.proc] = o.res
            /\ file = o.file

\* C18 witness: a call has stored an entry although the config its process
\* left behind differed from the file the call found (another process wrote
\* in between).
C18_Witness ==
    /\ LastCallEnded
    /\ sres[shist.last.proc] = "stored"
    /\ shist.last.config # EmptyMap
    /\ "Failed XPaths" \in DOMAIN shist.last.config
    /\ "Failed XPaths" \in DOMAIN shist.last.file
    /\ DOMAIN shist.last.config["Failed XPaths"] # DOMAIN shist.last.file["Failed XPaths"]

\* The interpreter keeps running the call: every enabled statement is taken.
FairSpec == Spec /\ WF_vars(Next)

====
